---- MODULE Spec2Model ----
(***************************************************************************)
(* Model of invoice_extraction_app.py: the text-acquisition stage (native  *)
(* PDF text layer with OCR fallback, or OCR of a single image), the field  *)
(* extractor (one LLM call followed by json.loads), the orchestrator       *)
(* run_pipeline / run_pipeline_with_bytes, and the Streamlit script that   *)
(* previews an upload and displays the pipeline's outcome.                 *)
(*                                                                         *)
(* Text is a sequence of one-character strings.  A byte payload is         *)
(* described by what the decoders make of it: a PDF with a text layer per  *)
(* page, an image with a colour mode, or bytes no decoder accepts.  The    *)
(* OCR engine and the hosted model are collaborators whose responses are   *)
(* chosen by the environment at the moment of the call.                    *)
(***************************************************************************)
EXTENDS Integers, Sequences, FiniteSets, TLC

\* ---------------------------------------------------------------- bounds
MaxPages == 2

\* ------------------------------------------------------------ characters
Whitespace == {" ", "\n"}

RECURSIVE LStrip(_)
LStrip(s) ==
  IF s = <<>> THEN <<>>
  ELSE IF Head(s) \in Whitespace THEN LStrip(Tail(s)) ELSE s

RECURSIVE RStrip(_)
RStrip(s) ==
  IF s = <<>> THEN <<>>
  ELSE IF s[Len(s)] \in Whitespace THEN RStrip(SubSeq(s, 1, Len(s) - 1)) ELSE s

\* str.strip()
Strip(s) == RStrip(LStrip(s))

\* the truth value of `extracted.strip()` on line 59
HasText(extracted) == Strip(extracted) # <<>>

\* str.lower(), on the letters the file names use
LowerChar(c) ==
  CASE c = "A" -> "a"
    [] c = "D" -> "d"
    [] c = "F" -> "f"
    [] c = "P" -> "p"
    [] OTHER -> c

Lower(s) == [i \in 1..Len(s) |-> LowerChar(s[i])]

\* str.endswith(suffix)
EndsWith(s, suf) ==
  /\ Len(suf) <= Len(s)
  /\ SubSeq(s, Len(s) - Len(suf) + 1, Len(s)) = suf

\* sep.join(parts)
RECURSIVE Join(_, _)
Join(parts, sep) ==
  IF parts = <<>> THEN <<>>
  ELSE IF Len(parts) = 1 THEN parts[1]
  ELSE parts[1] \o sep \o Join(Tail(parts), sep)

\* ------------------------------------------------------------ file names
DotPdf == <<".", "p", "d", "f">>
DotPng == <<".", "p", "n", "g">>
DotJpg == <<".", "j", "p", "g">>
DotJpeg == <<".", "j", "p", "e", "g">>
DotTxt == <<".", "t", "x", "t">>

\* the `type=` list of st.file_uploader
UploaderTypes == {DotPdf, DotPng, DotJpg, DotJpeg}

ImageSuffixes == {DotPng, DotJpg, DotJpeg}

AllNames ==
  { <<"a">> \o DotPdf, <<"A", ".", "P", "D", "F">>, <<"b">> \o DotPng,
    <<"c">> \o DotJpg, <<"d">> \o DotJpeg, <<"e">> \o DotTxt }

\* the widget only hands over files whose extension is in its type list
UploaderAccepts(n) == \E suf \in UploaderTypes : EndsWith(Lower(n), suf)

UINames == { n \in AllNames : UploaderAccepts(n) }

\* a programmatic caller is not held to the widget's list
DirectNames == { n \in AllNames : ~UploaderAccepts(n) } \cup { <<"a">> \o DotPdf, <<"b">> \o DotPng }

\* ------------------------------------------------------------- payloads
PageTexts == { <<>>, <<" ">>, <<"x", "\n">> }

RECURSIVE SeqsUpTo(_, _)
SeqsUpTo(S, n) ==
  IF n = 0 THEN { <<>> }
  ELSE LET shorter == SeqsUpTo(S, n - 1)
       IN shorter \cup { Append(q, e) : q \in { r \in shorter : Len(r) = n - 1 }, e \in S }

PdfDocs == { [fmt |-> "pdf", mode |-> "RGB", pages |-> p] :
               p \in SeqsUpTo(PageTexts, MaxPages) \ { <<>> } }
ImgDocs == { [fmt |-> "img", mode |-> m, pages |-> <<>>] : m \in {"P", "RGB"} }
BadDocs == { [fmt |-> "bad", mode |-> "RGB", pages |-> <<>>] }
Docs == PdfDocs \cup ImgDocs \cup BadDocs

NoDoc == [fmt |-> "none", mode |-> "RGB", pages |-> <<>>]

\* --------------------------------------------------------------- images
\* preprocess_image: palette images go to RGBA first, then to grayscale
preprocess_image(img) ==
  LET full == IF img.mode = "P" THEN [img EXCEPT !.mode = "RGBA"] ELSE img
  IN [full EXCEPT !.mode = "L"]

\* pdf2image.convert_from_bytes: one RGB image per page, in page order
convert_from_bytes(doc) ==
  [i \in 1..Len(doc.pages) |-> [page |-> i, mode |-> "RGB"]]

\* PIL.Image.open of an image payload: one image in the payload's mode
ImageOpen(doc) == [page |-> 1, mode |-> doc.mode]

\* the list built on line 67
ImageList_twice(img) == <<img, img>>
ImageList(img) == <<img>>

\* what the recognition engine can answer for one bitmap
OcrTexts == { <<>>, <<"z">> }

\* ---------------------------------------------------------------- prompt
PromptHead == << "You are an invoice-processing assistant. [...] Here is the raw invoice text:", "\n", "<code fence>", "\n" >>
PromptTail == << "\n", "<code fence>", "\n", "\n", "Respond *only* with the JSON." >>

\* lines 74-87
BuildPrompt_stripped(text) == PromptHead \o Strip(text) \o PromptTail
BuildPrompt(text) == PromptHead \o text \o PromptTail

\* line 91: the message list of one request
BuildMessages(prompt) == << [role |-> "user", content |-> prompt] >>

\* ------------------------------------------------------------------ JSON
\* The model's reply is a sequence of lexical tokens.
LBrace == [t |-> "punct", s |-> "{"]
RBrace == [t |-> "punct", s |-> "}"]
Colon == [t |-> "punct", s |-> ":"]
Comma == [t |-> "punct", s |-> ","]
StrTok(x) == [t |-> "string", s |-> x]
NumTok(x) == [t |-> "number", s |-> x]
ArrTok(x) == [t |-> "array", s |-> x]
JunkTok(x) == [t |-> "junk", s |-> x]

IsValueTok(tok) == tok.t \in {"string", "number", "array"}

\* the Python value a JSON value token decodes to
PyValue(tok) ==
  CASE tok.t = "string" -> [py |-> "str", v |-> tok.s]
    [] tok.t = "number" -> [py |-> "int", v |-> tok.s]
    [] tok.t = "array" -> [py |-> "list", v |-> tok.s]
    [] OTHER -> [py |-> "undefined", v |-> tok.s]

NoValue == [py |-> "none", v |-> ""]

\* A dict is the sequence of its (key, value) items in insertion order.
DictKeys(d) == { d[i][1] : i \in DOMAIN d }

DictGet(d, k) == LET i == CHOOSE j \in DOMAIN d : d[j][1] = k IN d[i][2]

\* d[k] = v: a present key keeps its place and takes the new value
DictSet(d, k, v) ==
  IF k \in DictKeys(d)
  THEN [i \in DOMAIN d |-> IF d[i][1] = k THEN <<k, v>> ELSE d[i]]
  ELSE Append(d, <<k, v>>)

ParseError == [err |-> TRUE, top |-> "none", items |-> <<>>, value |-> NoValue]
ParsedDict(d) == [err |-> FALSE, top |-> "dict", items |-> d, value |-> NoValue]
ParsedValue(v) == [err |-> FALSE, top |-> "value", items |-> <<>>, value |-> v]
NoResult == [err |-> FALSE, top |-> "none", items |-> <<>>, value |-> NoValue]

\* members of an object from token i on: key : value (, key : value)* }
RECURSIVE ParseMembers(_, _, _)
ParseMembers(toks, i, acc) ==
  IF i + 3 > Len(toks) THEN ParseError
  ELSE IF ~(toks[i].t = "string" /\ toks[i + 1] = Colon /\ IsValueTok(toks[i + 2]))
  THEN ParseError
  ELSE LET d == DictSet(acc, toks[i].s, PyValue(toks[i + 2]))
       IN IF toks[i + 3] = RBrace
          THEN IF i + 3 = Len(toks) THEN ParsedDict(d) ELSE ParseError
          ELSE IF toks[i + 3] = Comma THEN ParseMembers(toks, i + 4, d)
          ELSE ParseError

RequiredKeys == {"invoice_number", "invoice_date", "vendor_name", "total_amount", "products"}

\* json.loads
JsonParse(toks) ==
  IF toks = <<>> THEN ParseError
  ELSE IF toks[1] = LBrace
  THEN IF Len(toks) = 2 /\ toks[2] = RBrace THEN ParsedDict(<<>>)
       ELSE ParseMembers(toks, 2, <<>>)
  ELSE IF Len(toks) = 1 /\ IsValueTok(toks[1]) THEN ParsedValue(PyValue(toks[1]))
  ELSE ParseError

\* a parse that fills in an absent products key
JsonLoads_defaults(toks) ==
  LET r == JsonParse(toks)
  IN IF r.top = "dict" /\ "products" \notin DictKeys(r.items)
     THEN [r EXCEPT !.items = Append(r.items, <<"products", [py |-> "list", v |-> "[]"]>>)]
     ELSE r

JsonLoads(toks) == JsonParse(toks)

\* replies the hosted model can give
KV(k, tok) == << StrTok(k), Colon, tok >>

ReplyFull ==
  <<LBrace>> \o KV("invoice_number", StrTok("123")) \o <<Comma>>
  \o KV("invoice_date", StrTok("")) \o <<Comma>>
  \o KV("vendor_name", StrTok("")) \o <<Comma>>
  \o KV("total_amount", StrTok("$45.00")) \o <<Comma>>
  \o KV("products", ArrTok("[]")) \o <<RBrace>>

ReplyNoProducts ==
  <<LBrace>> \o KV("invoice_number", StrTok("123")) \o <<Comma>>
  \o KV("invoice_date", StrTok("")) \o <<Comma>>
  \o KV("vendor_name", StrTok("")) \o <<Comma>>
  \o KV("total_amount", NumTok("45")) \o <<RBrace>>

ReplyExtraKey ==
  <<LBrace>> \o KV("products", ArrTok("[]")) \o <<Comma>>
  \o KV("notes", StrTok("paid")) \o <<RBrace>>

ReplyDuplicateKey ==
  <<LBrace>> \o KV("vendor_name", StrTok("A")) \o <<Comma>>
  \o KV("products", ArrTok("[]")) \o <<Comma>>
  \o KV("vendor_name", StrTok("B")) \o <<RBrace>>

ReplyArray == << ArrTok("[]") >>
ReplyProse == << JunkTok("Sure, here is the JSON:"), LBrace, RBrace >>
ReplyTruncated == <<LBrace>> \o KV("invoice_number", StrTok("123")) \o <<Comma>>

Replies ==
  { ReplyFull, ReplyNoProducts, ReplyExtraKey, ReplyDuplicateKey, ReplyArray,
    ReplyProse, ReplyTruncated }

\* ----------------------------------------------------------------- state
VARIABLES
  pc,            \* position in the script / the pipeline
  caller,        \* "ui": the Streamlit script; "direct": a programmatic caller
  uploaded,      \* the uploader's file (name, data) of this script run
  file_bytes,    \* line 179
  preview,       \* left column: number of images shown, preview error banner
  pipelineCalls, \* the arguments of each run_pipeline_with_bytes call of this request
  fake_file,     \* lines 110-111
  loaded,        \* line 53: file_bytes of load_and_extract_text
  text,          \* accumulator of extract_text_from_pdf
  pageIdx,       \* its page loop
  images,        \* the list handed to perform_ocr_on_images
  imgIdx,        \* its image loop
  texts,         \* accumulator of perform_ocr_on_images
  rawText,       \* line 101: text of run_pipeline
  messages,      \* line 91: message list of the last request to the model
  content,       \* response.choices[0].message.content
  result,        \* line 102: fields
  exc,           \* message of the exception in flight, "" if none
  display,       \* right column: json, download button, error banner
  outcome,       \* what a direct caller got: "returned", "raised", ""
  calls,         \* collaborator and stage calls of this run, in order
  ocrIn,         \* bitmaps handed to image_to_string in this run
  ocrOut,        \* what image_to_string answered in this run
  ocrLists,      \* lengths of the lists handed to perform_ocr_on_images
  llmRequests,   \* message lists sent to the model in this run
  faults,        \* collaborators that raised in this run
  textStatus,    \* load_and_extract_text: "none", "running", "returned", "raised"
  llmStatus      \* extract_fields_with_llm: "none", "called", "parsed", "raised"

uiVars == <<uploaded, file_bytes, preview, display>>
pipeVars == <<fake_file, loaded, text, pageIdx, images, imgIdx, texts, rawText, messages,
              content, result>>
logVars == <<calls, ocrIn, ocrOut, ocrLists, llmRequests, faults, textStatus, llmStatus>>
vars == <<pc, caller, pipelineCalls, exc, outcome, uiVars, pipeVars, logVars>>

NoFile == [name |-> <<>>, data |-> NoDoc]
NoPreview == [items |-> 0, error |-> ""]
NoDisplay == [json |-> NoResult, download |-> FALSE, error |-> ""]

Init ==
  /\ pc = "idle"
  /\ caller = "none"
  /\ uploaded = NoFile
  /\ file_bytes = NoDoc
  /\ preview = NoPreview
  /\ pipelineCalls = <<>>
  /\ fake_file = NoFile
  /\ loaded = NoDoc
  /\ text = <<>>
  /\ pageIdx = 0
  /\ images = <<>>
  /\ imgIdx = 0
  /\ texts = <<>>
  /\ rawText = <<>>
  /\ messages = <<>>
  /\ content = <<>>
  /\ result = NoResult
  /\ exc = ""
  /\ display = NoDisplay
  /\ outcome = ""
  /\ calls = <<>>
  /\ ocrIn = <<>>
  /\ ocrOut = <<>>
  /\ ocrLists = <<>>
  /\ llmRequests = <<>>
  /\ faults = {}
  /\ textStatus = "none"
  /\ llmStatus = "none"

\* A new request starts from a cleared page and fresh locals.  The list
\* texts keeps its last value until line 41 re-initialises it.
NewRequest ==
  /\ pc \in {"idle", "done", "crashed"}
  /\ preview' = NoPreview
  /\ display' = NoDisplay
  /\ loaded' = NoDoc
  /\ pageIdx' = 0
  /\ images' = <<>>
  /\ imgIdx' = 0
  /\ rawText' = <<>>
  /\ content' = <<>>
  /\ result' = NoResult
  /\ exc' = ""
  /\ outcome' = ""
  /\ calls' = <<>>
  /\ ocrIn' = <<>>
  /\ ocrOut' = <<>>
  /\ ocrLists' = <<>>
  /\ llmRequests' = <<>>
  /\ faults' = {}
  /\ textStatus' = "none"
  /\ llmStatus' = "none"
  /\ text' = <<>>
  /\ messages' = <<>>
  /\ UNCHANGED texts

\* lines 175-180: the user picks a file, the script reads it
UploadFile(n, d) ==
  /\ NewRequest
  /\ caller' = "ui"
  /\ uploaded' = [name |-> n, data |-> d]
  /\ file_bytes' = d
  /\ fake_file' = NoFile
  /\ pipelineCalls' = <<>>
  /\ pc' = "preview"

\* lines 105-112 entered by a programmatic caller
DirectCall(n, d) ==
  /\ NewRequest
  /\ caller' = "direct"
  /\ uploaded' = NoFile
  /\ file_bytes' = NoDoc
  /\ fake_file' = [name |-> n, data |-> d]
  /\ pipelineCalls' = << [name |-> n, data |-> d] >>
  /\ pc' = "load"

\* line 198: the handler around the PDF preview
PreviewFailureExit_uncaught == "crashed"
PreviewFailureExit == "col2"

\* lines 182-199
Preview ==
  /\ pc = "preview"
  /\ LET lname == Lower(uploaded.name)
     IN IF \E suf \in ImageSuffixes : EndsWith(lname, suf)
        THEN \* line 183, st.image decodes the bytes; nothing guards it
             IF file_bytes.fmt = "img"
             THEN /\ preview' = [items |-> 1, error |-> ""]
                  /\ exc' = ""
                  /\ pc' = "col2"
             ELSE /\ preview' = preview
                  /\ exc' = "UnidentifiedImageError"
                  /\ pc' = "crashed"
        ELSE IF EndsWith(lname, DotPdf)
        THEN IF file_bytes.fmt # "pdf"
             THEN \* line 188 raises, line 199 shows it
                  /\ preview' = [items |-> 0, error |-> "FileDataError"]
                  /\ exc' = IF PreviewFailureExit = "crashed" THEN "FileDataError" ELSE ""
                  /\ pc' = PreviewFailureExit
             ELSE \/ \* lines 189-197: every page is rendered and shown
                     /\ preview' = [items |-> Len(file_bytes.pages), error |-> ""]
                     /\ exc' = ""
                     /\ pc' = "col2"
                  \/ \* rendering page k + 1 raises after k pages were shown,
                     \* line 199 adds the banner below them
                     \E k \in 0..(Len(file_bytes.pages) - 1) :
                       /\ preview' = [items |-> k, error |-> "RenderError"]
                       /\ exc' = IF PreviewFailureExit = "crashed" THEN "RenderError" ELSE ""
                       /\ pc' = PreviewFailureExit
        ELSE /\ preview' = preview
             /\ exc' = ""
             /\ pc' = "col2"
  /\ UNCHANGED <<caller, pipelineCalls, outcome, uploaded, file_bytes, display,
                 pipeVars, logVars>>

\* lines 202-207 and 110-112: the right column calls the pipeline
EnterPipeline ==
  /\ pc = "col2"
  /\ fake_file' = [name |-> uploaded.name, data |-> file_bytes]
  /\ pipelineCalls' = Append(pipelineCalls, [name |-> uploaded.name, data |-> file_bytes])
  /\ pc' = "load"
  /\ UNCHANGED <<caller, exc, outcome, uiVars, loaded, text, pageIdx, images, imgIdx,
                 texts, rawText, messages, content, result, logVars>>

\* lines 53-56 and 64: read the file, branch on the lowered name
LoadFile ==
  /\ pc = "load"
  /\ loaded' = fake_file.data
  /\ textStatus' = "running"
  /\ pc' = IF EndsWith(Lower(fake_file.name), DotPdf) THEN "pdf_open" ELSE "img_open"
  /\ UNCHANGED <<caller, pipelineCalls, exc, outcome, uiVars, fake_file, text, pageIdx,
                 images, imgIdx, texts, rawText, messages, content, result, calls, ocrIn,
                 ocrOut, ocrLists, llmRequests, faults, llmStatus>>

\* lines 101-102: an exception of the text stage leaves run_pipeline
TextStageExit_swallow(raised) == "llm"
TextStageExit(raised) == IF raised THEN "raise" ELSE "llm"

\* lines 21-22
PdfOpen ==
  /\ pc = "pdf_open"
  /\ calls' = Append(calls, "extract_text_from_pdf")
  /\ text' = <<>>
  /\ IF loaded.fmt = "pdf"
     THEN /\ pageIdx' = 1
          /\ pc' = "pdf_page"
          /\ UNCHANGED <<exc, textStatus>>
     ELSE /\ pageIdx' = pageIdx
          /\ exc' = "FileDataError"
          /\ textStatus' = "raised"
          /\ pc' = TextStageExit(TRUE)
  /\ UNCHANGED <<caller, pipelineCalls, outcome, uiVars, fake_file, loaded, images,
                 imgIdx, texts, rawText, messages, content, result, ocrIn, ocrOut, ocrLists,
                 llmRequests, faults, llmStatus>>

\* line 24
PageAppend_last(acc, pageText) == pageText
PageAppend(acc, pageText) == acc \o pageText

\* lines 23-24
PdfPage ==
  /\ pc = "pdf_page"
  /\ pageIdx <= Len(loaded.pages)
  /\ text' = PageAppend(text, loaded.pages[pageIdx])
  /\ pageIdx' = pageIdx + 1
  /\ UNCHANGED <<pc, caller, pipelineCalls, exc, outcome, uiVars, fake_file, loaded,
                 images, imgIdx, texts, rawText, messages, content, result, logVars>>

\* lines 25 and 58-61
PdfReturn ==
  /\ pc = "pdf_page"
  /\ pageIdx > Len(loaded.pages)
  /\ IF HasText(text)
     THEN /\ rawText' = text
          /\ textStatus' = "returned"
          /\ pc' = TextStageExit(FALSE)
     ELSE /\ rawText' = rawText
          /\ textStatus' = textStatus
          /\ pc' = "rasterize"
  /\ UNCHANGED <<caller, pipelineCalls, exc, outcome, uiVars, fake_file, loaded, text,
                 pageIdx, images, imgIdx, texts, messages, content, result, calls, ocrIn,
                 ocrOut, ocrLists, llmRequests, faults, llmStatus>>

\* line 62
Rasterize ==
  /\ pc = "rasterize"
  /\ calls' = Append(calls, "convert_from_bytes")
  /\ \/ /\ images' = convert_from_bytes(loaded)
        /\ pc' = "ocr_start"
        /\ UNCHANGED <<exc, faults, textStatus>>
     \/ /\ images' = images
        /\ exc' = "PDFPageCountError"
        /\ faults' = faults \cup {"rasterizer"}
        /\ textStatus' = "raised"
        /\ pc' = TextStageExit(TRUE)
  /\ UNCHANGED <<caller, pipelineCalls, outcome, uiVars, fake_file, loaded, text,
                 pageIdx, imgIdx, texts, rawText, messages, content, result, ocrIn, ocrOut,
                 ocrLists, llmRequests, llmStatus>>

\* line 66
ImgOpen ==
  /\ pc = "img_open"
  /\ calls' = Append(calls, "Image.open")
  /\ IF loaded.fmt = "img"
     THEN /\ images' = ImageList(ImageOpen(loaded))
          /\ pc' = "ocr_start"
          /\ UNCHANGED <<exc, textStatus>>
     ELSE /\ images' = images
          /\ exc' = "UnidentifiedImageError"
          /\ textStatus' = "raised"
          /\ pc' = TextStageExit(TRUE)
  /\ UNCHANGED <<caller, pipelineCalls, outcome, uiVars, fake_file, loaded, text,
                 pageIdx, imgIdx, texts, rawText, messages, content, result, ocrIn, ocrOut,
                 ocrLists, llmRequests, faults, llmStatus>>

\* line 41
FreshTexts_kept(previous) == previous
FreshTexts(previous) == <<>>

\* lines 37-41
OcrStart ==
  /\ pc = "ocr_start"
  /\ calls' = Append(calls, "perform_ocr_on_images")
  /\ ocrLists' = Append(ocrLists, Len(images))
  /\ texts' = FreshTexts(texts)
  /\ imgIdx' = 1
  /\ pc' = "ocr_page"
  /\ UNCHANGED <<caller, pipelineCalls, exc, outcome, uiVars, fake_file, loaded, text,
                 pageIdx, images, rawText, messages, content, result, ocrIn, ocrOut,
                 llmRequests, faults, textStatus, llmStatus>>

\* lines 42-45
OcrPage ==
  /\ pc = "ocr_page"
  /\ imgIdx <= Len(images)
  /\ calls' = Append(calls, "image_to_string")
  /\ ocrIn' = Append(ocrIn, preprocess_image(images[imgIdx]))
  /\ \/ \E t \in OcrTexts :
          /\ texts' = Append(texts, t)
          /\ ocrOut' = Append(ocrOut, t)
          /\ imgIdx' = imgIdx + 1
          /\ UNCHANGED <<pc, exc, faults, textStatus>>
     \/ /\ exc' = "TesseractError"
        /\ faults' = faults \cup {"ocr"}
        /\ textStatus' = "raised"
        /\ pc' = TextStageExit(TRUE)
        /\ UNCHANGED <<texts, ocrOut, imgIdx>>
  /\ UNCHANGED <<caller, pipelineCalls, outcome, uiVars, fake_file, loaded, text,
                 pageIdx, images, rawText, messages, content, result, ocrLists, llmRequests,
                 llmStatus>>

\* line 46
OcrJoin_nosep(parts) == Join(parts, <<>>)
OcrJoin(parts) == Join(parts, <<"\n">>)

\* lines 46 and 63 / 67
OcrReturn ==
  /\ pc = "ocr_page"
  /\ imgIdx > Len(images)
  /\ rawText' = OcrJoin(texts)
  /\ textStatus' = "returned"
  /\ pc' = TextStageExit(FALSE)
  /\ UNCHANGED <<caller, pipelineCalls, exc, outcome, uiVars, fake_file, loaded, text,
                 pageIdx, images, imgIdx, texts, messages, content, result, calls, ocrIn,
                 ocrOut, ocrLists, llmRequests, faults, llmStatus>>

\* lines 74-93
CallLLM ==
  /\ pc = "llm"
  /\ calls' = Append(calls, "chat.completions.create")
  /\ messages' = BuildMessages(BuildPrompt(rawText))
  /\ llmRequests' = Append(llmRequests, messages')
  /\ \/ \E r \in Replies :
          /\ content' = r
          /\ llmStatus' = "called"
          /\ pc' = "parse"
          /\ UNCHANGED <<exc, faults>>
     \/ /\ content' = content
        /\ exc' = "APIError"
        /\ faults' = faults \cup {"llm"}
        /\ llmStatus' = "raised"
        /\ pc' = "raise"
  /\ UNCHANGED <<caller, pipelineCalls, outcome, uiVars, fake_file, loaded, text,
                 pageIdx, images, imgIdx, texts, rawText, result, ocrIn, ocrOut, ocrLists,
                 textStatus>>

\* lines 94 and 102-103
ParseReply ==
  /\ pc = "parse"
  /\ calls' = Append(calls, "json.loads")
  /\ LET r == JsonLoads(content)
     IN IF r.err
        THEN /\ result' = result
             /\ exc' = "JSONDecodeError"
             /\ llmStatus' = "raised"
             /\ pc' = "raise"
        ELSE /\ result' = r
             /\ exc' = exc
             /\ llmStatus' = "parsed"
             /\ pc' = "return"
  /\ UNCHANGED <<caller, pipelineCalls, outcome, uiVars, fake_file, loaded, text,
                 pageIdx, images, imgIdx, texts, rawText, messages, content, ocrIn, ocrOut,
                 ocrLists, llmRequests, faults, textStatus>>

\* lines 208-214
ShowResult ==
  /\ pc = "return"
  /\ caller = "ui"
  /\ display' = [json |-> result, download |-> TRUE, error |-> ""]
  /\ pc' = "done"
  /\ UNCHANGED <<caller, pipelineCalls, exc, outcome, uploaded, file_bytes, preview,
                 pipeVars, logVars>>

\* lines 215-216
ShowError ==
  /\ pc = "raise"
  /\ caller = "ui"
  /\ display' = [json |-> NoResult, download |-> FALSE, error |-> exc]
  /\ exc' = ""
  /\ pc' = "done"
  /\ UNCHANGED <<caller, pipelineCalls, outcome, uploaded, file_bytes, preview,
                 pipeVars, logVars>>

\* line 112 seen by a programmatic caller
DirectReturn ==
  /\ pc = "return"
  /\ caller = "direct"
  /\ outcome' = "returned"
  /\ pc' = "done"
  /\ UNCHANGED <<caller, pipelineCalls, exc, uiVars, pipeVars, logVars>>

DirectRaise ==
  /\ pc = "raise"
  /\ caller = "direct"
  /\ outcome' = "raised"
  /\ pc' = "done"
  /\ UNCHANGED <<caller, pipelineCalls, exc, uiVars, pipeVars, logVars>>

Next ==
  \/ \E n \in UINames, d \in Docs : UploadFile(n, d)
  \/ \E n \in DirectNames, d \in Docs : DirectCall(n, d)
  \/ Preview
  \/ EnterPipeline
  \/ LoadFile
  \/ PdfOpen
  \/ PdfPage
  \/ PdfReturn
  \/ Rasterize
  \/ ImgOpen
  \/ OcrStart
  \/ OcrPage
  \/ OcrReturn
  \/ CallLLM
  \/ ParseReply
  \/ ShowResult
  \/ ShowError
  \/ DirectReturn
  \/ DirectRaise

Spec == Init /\ [][Next]_vars

\* ------------------------------------------------- vocabulary of claims
Count(log, x) == Cardinality({ i \in DOMAIN log : log[i] = x })

\* some character of s is not whitespace
NonBlank(s) == \E i \in DOMAIN s : s[i] \notin Whitespace

\* the page texts one after the other, built from the last page backwards
RECURSIVE Flatten(_, _)
Flatten(pages, k) ==
  IF k = 0 THEN <<>> ELSE Flatten(pages, k - 1) \o pages[k]

TextLayer(doc) == Flatten(doc.pages, Len(doc.pages))

\* the first k parts with one newline between neighbours
RECURSIVE NewlineJoined(_, _)
NewlineJoined(parts, k) ==
  IF k = 0 THEN <<>>
  ELSE IF k = 1 THEN parts[1]
  ELSE NewlineJoined(parts, k - 1) \o <<"\n">> \o parts[k]

RECURSIVE TotalLen(_, _)
TotalLen(parts, k) == IF k = 0 THEN 0 ELSE TotalLen(parts, k - 1) + Len(parts[k])

PdfName(n) == EndsWith(Lower(n), DotPdf)
ImageName(n) == \E suf \in ImageSuffixes : EndsWith(Lower(n), suf)

\* the document the pipeline is working on
RunIsPdf == PdfName(fake_file.name) /\ fake_file.data.fmt = "pdf"

OcrSideCalls == {"convert_from_bytes", "perform_ocr_on_images", "image_to_string"}
TextStageCalls == OcrSideCalls \cup {"extract_text_from_pdf", "Image.open"}
LlmCall == "chat.completions.create"

NoCallIn(S) == \A i \in DOMAIN calls : calls[i] \notin S

\* C1 as stated: for every .pdf upload that bears a text layer (some page has
\* text), load_and_extract_text returns the nonempty concatenation of the page
\* texts in document order and neither the rasterizer nor the OCR stage runs.
C1_AsStated ==
  (RunIsPdf /\ TextLayer(fake_file.data) # <<>>) =>
     /\ NoCallIn(OcrSideCalls)
     /\ textStatus # "raised"
     /\ textStatus = "returned" =>
          (rawText = TextLayer(fake_file.data) /\ rawText # <<>>)

\* C1 amended: for every .pdf upload whose concatenated text layer has a
\* non-whitespace character, load_and_extract_text returns that nonempty
\* concatenation in document order, never raises, and neither the rasterizer
\* nor the OCR stage runs.
C1_NativePdfDirect ==
  (RunIsPdf /\ NonBlank(TextLayer(fake_file.data))) =>
     /\ NoCallIn(OcrSideCalls)
     /\ ocrIn = <<>>
     /\ textStatus # "raised"
     /\ textStatus = "returned" =>
          (rawText = TextLayer(fake_file.data) /\ rawText # <<>>)

C1_Witness ==
  /\ RunIsPdf
  /\ fake_file.data.pages = << <<"x", "\n">>, <<" ">> >>
  /\ textStatus = "returned"
  /\ rawText = <<"x", "\n", " ">>

\* C2: for every .pdf upload whose concatenated text layer is blank, text
\* recognition runs at most once per page, in page order, on the rasterized
\* pages; when load_and_extract_text returns it ran exactly once per page and
\* the result is the per-page outputs joined by single newlines (n pages,
\* n recognition calls, n - 1 separators).
C2_OcrFallbackPerPage ==
  (RunIsPdf /\ ~NonBlank(TextLayer(fake_file.data))) =>
     LET n == Len(fake_file.data.pages)
     IN /\ Len(ocrIn) <= n
        /\ Count(calls, "image_to_string") = Len(ocrIn)
        /\ \A i \in DOMAIN ocrIn : ocrIn[i] = [page |-> i, mode |-> "L"]
        /\ Count(calls, "perform_ocr_on_images") <= 1
        /\ textStatus = "returned" =>
             /\ Len(ocrIn) = n
             /\ Len(ocrOut) = n
             /\ ocrLists = <<n>>
             /\ rawText = NewlineJoined(ocrOut, n)
             /\ Len(rawText) = TotalLen(ocrOut, n) + (n - 1)

C2_Witness ==
  /\ RunIsPdf
  /\ fake_file.data.pages = << <<" ">>, <<>> >>
  /\ textStatus = "returned"
  /\ ocrOut = << <<"z">>, <<>> >>
  /\ rawText = <<"z", "\n">>

\* C3: for every upload with an image suffix that decodes, one pipeline run
\* invokes the OCR stage exactly once, on a list of exactly one image, and
\* never calls the PDF text extractor or the rasterizer.
C3_ImageOneOcr ==
  (ImageName(fake_file.name) /\ fake_file.data.fmt = "img") =>
     /\ NoCallIn({"extract_text_from_pdf", "convert_from_bytes"})
     /\ ocrLists \in { <<>>, <<1>> }
     /\ Len(ocrIn) <= 1
     /\ pc = "done" =>
          /\ ocrLists = <<1>>
          /\ Count(calls, "perform_ocr_on_images") = 1
          /\ Len(ocrIn) = 1
          /\ ocrIn[1] = [page |-> 1, mode |-> "L"]

C3_Witness ==
  /\ fake_file.name = <<"c">> \o DotJpg
  /\ fake_file.data = [fmt |-> "img", mode |-> "P", pages |-> <<>>]
  /\ pc = "done"
  /\ ocrLists = <<1>>
  /\ llmStatus = "parsed"

\* C4: for every file whose suffix is none of .pdf, .png, .jpg, .jpeg the
\* loader rejects the file before the OCR or the LLM stage: neither
\* image_to_string nor the LLM call happens in such a run.
C4_UnsupportedRejected ==
  (fake_file # NoFile /\ ~PdfName(fake_file.name) /\ ~ImageName(fake_file.name)) =>
     NoCallIn({"image_to_string", LlmCall})

\* C5: the text stage completes before the LLM stage starts; if the text stage
\* raises the LLM is never called; if the LLM request or the JSON parse raises
\* no result is returned; the LLM is called at most once per run.
C5_StagesInOrder ==
  /\ Count(calls, LlmCall) <= 1
  /\ Len(llmRequests) = Count(calls, LlmCall)
  /\ \A i, j \in DOMAIN calls :
       (calls[i] = LlmCall /\ calls[j] \in TextStageCalls) => j < i
  /\ Count(calls, LlmCall) = 1 => textStatus = "returned"
  /\ textStatus = "raised" => (llmStatus = "none" /\ NoCallIn({LlmCall, "json.loads"}))
  /\ (textStatus = "raised" \/ llmStatus = "raised") =>
       /\ result = NoResult
       /\ display.json = NoResult
       /\ ~display.download
       /\ outcome # "returned"
       /\ pc \in {"raise", "done"}

C5_Witness ==
  /\ pc = "done"
  /\ llmStatus = "raised"
  /\ faults = {}
  /\ Len(ocrIn) = 2
  /\ display.error = "JSONDecodeError"

\* the message list that embeds a text unmodified between the fixed parts
RequestEmbedding(t) == << [role |-> "user", content |-> PromptHead \o t \o PromptTail] >>

\* the run is past the point where the field extractor is invoked
PastLlmCall == pc \in {"parse", "return", "done"} \/ (pc = "raise" /\ textStatus = "returned")

\* C6: when the text stage returns an empty or whitespace-only string the
\* pipeline does not short-circuit: the field extractor is invoked exactly
\* once, its prompt embeds that text unmodified, and the run's outcome is what
\* that one LLM call and its JSON parse produce.
C6_BlankTextStillSent ==
  (textStatus = "returned" /\ ~NonBlank(rawText)) =>
     /\ pc \in {"llm", "parse", "return", "raise", "done"}
     /\ PastLlmCall =>
          /\ Count(calls, LlmCall) = 1
          /\ llmRequests = << RequestEmbedding(rawText) >>
     /\ pc = "done" =>
          IF "llm" \in faults
          THEN result = NoResult /\ (display.error = "APIError" \/ exc = "APIError")
          ELSE IF JsonParse(content).err
          THEN result = NoResult /\ (display.error = "JSONDecodeError" \/ exc = "JSONDecodeError")
          ELSE result = JsonParse(content) /\ (display.json = result \/ outcome = "returned")

C6_Witness ==
  /\ pc = "done"
  /\ textStatus = "returned"
  /\ rawText = <<"\n">>
  /\ llmStatus = "parsed"
  /\ llmRequests = << RequestEmbedding(<<"\n">>) >>

\* the members of an object text: token 4i - 2 is the i-th key, token 4i its value
MemberCount(toks) == (Len(toks) - 1) \div 4
KeyAt(toks, i) == toks[4 * i - 2].s
ValueAt(toks, i) == toks[4 * i]
KeysIn(toks) == { KeyAt(toks, i) : i \in 1..MemberCount(toks) }
LastMember(toks, k) ==
  CHOOSE i \in 1..MemberCount(toks) :
    /\ KeyAt(toks, i) = k
    /\ \A j \in 1..MemberCount(toks) : KeyAt(toks, j) = k => j <= i

ScenarioFields ==
  << <<"invoice_number", [py |-> "str", v |-> "123"]>>,
     <<"invoice_date", [py |-> "str", v |-> ""]>>,
     <<"vendor_name", [py |-> "str", v |-> ""]>>,
     <<"total_amount", [py |-> "str", v |-> "$45.00"]>>,
     <<"products", [py |-> "list", v |-> "[]"]>> >>

\* C7: extract_fields_with_llm returns the parsed object verbatim: a reply
\* with exactly the five keys gives exactly those five keys with the same
\* values, a reply that omits a key gives a structure that omits it, and no
\* key is added, removed or defaulted.
C7_ReplyVerbatim ==
  (llmStatus = "parsed" /\ content[1] = LBrace) =>
     /\ result.top = "dict"
     /\ DictKeys(result.items) = KeysIn(content)
     /\ Len(result.items) = Cardinality(KeysIn(content))
     /\ \A k \in KeysIn(content) :
          DictGet(result.items, k) = PyValue(ValueAt(content, LastMember(content, k)))
     /\ KeysIn(content) = RequiredKeys => DictKeys(result.items) = RequiredKeys
     /\ content = ReplyFull => result.items = ScenarioFields
     /\ "products" \notin KeysIn(content) => "products" \notin DictKeys(result.items)
     /\ (pc = "done" /\ caller = "ui") => display.json = result

C7_Witness ==
  /\ pc = "done"
  /\ caller = "ui"
  /\ content = ReplyFull
  /\ display.json.items = ScenarioFields
  /\ display.download

\* C8: every failure while an upload is processed is shown as the error banner
\* with the exception's message; each UI request ends with exactly one of
\* {JSON result and download button, error banner}; no exception leaves the
\* script uncaught.
C8_OneOutcomePerUpload ==
  (caller = "ui" /\ pc \in {"done", "crashed"}) =>
     /\ pc # "crashed"
     /\ exc = ""
     /\ (display.json # NoResult /\ display.download) # (display.error # "")
     /\ (textStatus = "raised" \/ llmStatus = "raised") => display.error # ""

\* what the text stage gives for a document and the collaborators' answers
ExpectedText(f, outs, flt) ==
  IF PdfName(f.name)
  THEN IF f.data.fmt # "pdf" THEN [ok |-> FALSE, text |-> <<>>, msg |-> "FileDataError"]
       ELSE IF NonBlank(TextLayer(f.data))
       THEN [ok |-> TRUE, text |-> TextLayer(f.data), msg |-> ""]
       ELSE IF "rasterizer" \in flt THEN [ok |-> FALSE, text |-> <<>>, msg |-> "PDFPageCountError"]
       ELSE IF "ocr" \in flt THEN [ok |-> FALSE, text |-> <<>>, msg |-> "TesseractError"]
       ELSE [ok |-> TRUE, text |-> NewlineJoined(outs, Len(f.data.pages)), msg |-> ""]
  ELSE IF f.data.fmt # "img" THEN [ok |-> FALSE, text |-> <<>>, msg |-> "UnidentifiedImageError"]
       ELSE IF "ocr" \in flt THEN [ok |-> FALSE, text |-> <<>>, msg |-> "TesseractError"]
       ELSE [ok |-> TRUE, text |-> NewlineJoined(outs, 1), msg |-> ""]

\* what a whole run gives
ExpectedRun(f, outs, flt, reply) ==
  LET t == ExpectedText(f, outs, flt)
  IN IF ~t.ok THEN [ok |-> FALSE, fields |-> NoResult, msg |-> t.msg, requests |-> <<>>]
     ELSE IF "llm" \in flt
     THEN [ok |-> FALSE, fields |-> NoResult, msg |-> "APIError",
           requests |-> << RequestEmbedding(t.text) >>]
     ELSE IF JsonParse(reply).err
     THEN [ok |-> FALSE, fields |-> NoResult, msg |-> "JSONDecodeError",
           requests |-> << RequestEmbedding(t.text) >>]
     ELSE [ok |-> TRUE, fields |-> JsonParse(reply), msg |-> "",
           requests |-> << RequestEmbedding(t.text) >>]

\* C9: nothing is retained across invocations: whatever was processed before,
\* a finished run's requests and outcome are determined by its document's
\* name and bytes and by the OCR and LLM responses of that run.
C9_OutcomeOfRunOnly ==
  pc = "done" =>
     LET e == ExpectedRun(fake_file, ocrOut, faults, content)
     IN /\ llmRequests = e.requests
        /\ result = e.fields
        /\ caller = "ui" =>
             display = [json |-> e.fields, download |-> e.ok, error |-> e.msg]
        /\ caller = "direct" =>
             /\ outcome = (IF e.ok THEN "returned" ELSE "raised")
             /\ exc = e.msg

\* a native-PDF run has finished while the OCR texts of an earlier run are still around
C9_Witness ==
  /\ pc = "done"
  /\ textStatus = "returned"
  /\ ocrLists = <<>>
  /\ texts = << <<"z">>, <<>> >>
  /\ llmStatus = "parsed"

\* C10: for every uploaded .pdf, whether the preview succeeds or raises, the
\* preview failure is caught locally, run_pipeline_with_bytes is invoked
\* exactly once on the bytes read before the preview, and its outcome is
\* displayed whatever the preview did.
C10_PreviewDoesNotBlock ==
  (caller = "ui" /\ PdfName(uploaded.name)) =>
     /\ pc # "crashed"
     /\ file_bytes = uploaded.data
     /\ Len(pipelineCalls) <= 1
     /\ pc \notin {"preview", "col2"} =>
          pipelineCalls = << [name |-> uploaded.name, data |-> file_bytes] >>
     /\ pc = "done" =>
          LET e == ExpectedRun([name |-> uploaded.name, data |-> file_bytes], ocrOut, faults,
                               content)
          IN display = [json |-> e.fields, download |-> e.ok, error |-> e.msg]

C10_Witness ==
  /\ caller = "ui"
  /\ PdfName(uploaded.name)
  /\ preview = [items |-> 1, error |-> "RenderError"]
  /\ pc = "done"
  /\ display.download
  /\ Len(pipelineCalls) = 1

====
